---- MODULE Spec2Model ----
(***************************************************************************)
(* Model of the Time Auction game-session orchestrator: the WebSocket      *)
(* message handlers, timers and the in-memory store of server/routes.ts    *)
(* and server/storage.ts.                                                  *)
(*                                                                         *)
(* A handler is a function from the server state (a record St with one     *)
(* field per variable, plus the messages sent, "out") to the server state. *)
(* The handlers that the concurrency claims are about are written as step  *)
(* functions over a frame (program counter + locals), one step per storage *)
(* call (the await at which the handler may suspend); Run executes a frame *)
(* to its end, which is how a message is processed when nothing else is    *)
(* scheduled between its storage calls.                                    *)
(*                                                                         *)
(* Conventions: 0 stands for null/undefined ids; timeBank is in seconds    *)
(* and holdTime in milliseconds, as in the source.                         *)
(***************************************************************************)
EXTENDS Integers, Sequences, FiniteSets, TLC

\* ---- bounds of the model ------------------------------------------------
NumUsers == 3          \* registered human users are 1..NumUsers
MaxParticipants == 2   \* participants the model lets into one game
MaxRounds == 1         \* totalRounds is drawn from 1..MaxRounds
MaxBank == 2           \* time banks above this are not explored
MaxTimers == 1         \* countdown timers alive at once
MaxFrames == 2         \* handlers suspended at once (interleaved spec)
MaxResolutions == 2                \* resolutions recorded over all games

Humans == 1..NumUsers
BotUser == NumUsers + 1            \* id createUser gives the first bot user
UnknownUser == NumUsers + 2        \* an id the store does not know
Conns == Humans                    \* connection c is opened by the client of user c
GameIds == {1}
HoldTimes == {-1000, 0, 1000}
StartBank == 1                     \* startingTimeBank of the games created

VARIABLES
  users,                \* MemStorage.users (ids)
  games,                \* MemStorage.games: sequence, games[id]
  parts,                \* MemStorage.gameParticipants in Map insertion order
  participantIdCounter, \* MemStorage.participantIdCounter
  gameRounds,           \* MemStorage.gameRounds
  conns,                \* per connection: the closure variables of wss.on('connection')
  gameClients,          \* gameClients: gameId -> (userId -> socket)
  userSocketMap,        \* userSocketMap: userId -> socket
  countdowns,           \* live setInterval timers of startGameCountdown
  roundTimers,          \* pending setTimeout callbacks of endCurrentRound
  frames,               \* handlers suspended at a storage call
  resolutions,          \* history: one entry per round resolution
  bidsSinceReset        \* history: per game, the users whose release was accepted
                        \* since the game's last resolution

vars == <<users, games, parts, participantIdCounter, gameRounds, conns,
          gameClients, userSocketMap, countdowns, roundTimers, frames, resolutions,
          bidsSinceReset>>

\* The server state as one value; out collects the messages sent by the
\* handler being executed.
St == [users |-> users, games |-> games, parts |-> parts,
       participantIdCounter |-> participantIdCounter, gameRounds |-> gameRounds,
       conns |-> conns, gameClients |-> gameClients, userSocketMap |-> userSocketMap,
       countdowns |-> countdowns, roundTimers |-> roundTimers,
       resolutions |-> resolutions, bidsSinceReset |-> bidsSinceReset, out |-> <<>>]

Becomes(s) ==
  /\ users' = s.users
  /\ games' = s.games
  /\ parts' = s.parts
  /\ participantIdCounter' = s.participantIdCounter
  /\ gameRounds' = s.gameRounds
  /\ conns' = s.conns
  /\ gameClients' = s.gameClients
  /\ userSocketMap' = s.userSocketMap
  /\ countdowns' = s.countdowns
  /\ roundTimers' = s.roundTimers
  /\ resolutions' = s.resolutions
  /\ bidsSinceReset' = s.bidsSinceReset

Max(a, b) == IF a >= b THEN a ELSE b

\* ---- MemStorage -----------------------------------------------------------
NoGame == [id |-> 0, status |-> "none"]
NoParticipant == [id |-> 0, userId |-> 0]

getUser(s, id) == id \in s.users

getGame(s, id) == IF id \in 1..Len(s.games) THEN s.games[id] ELSE NoGame

createGame(s, createdById, totalRounds, hasBots, isPublic) ==
  [s EXCEPT !.games = Append(@,
     [id |-> Len(s.games) + 1, createdById |-> createdById, status |-> "waiting",
      currentRound |-> 0, totalRounds |-> totalRounds, startingTimeBank |-> StartBank,
      isPublic |-> isPublic, hasBots |-> hasBots, hostId |-> 0,
      roundWinnerId |-> 0, maxHoldTimeLastRound |-> 0])]

updateGameStatus(s, id, status) ==
  IF id \in 1..Len(s.games) THEN [s EXCEPT !.games[id].status = status] ELSE s

getPublicGames(s) == SelectSeq(s.games, LAMBDA g : g.isPublic /\ g.status = "waiting")

PartIndex(s, gameId, userId) ==
  {i \in 1..Len(s.parts) : s.parts[i].gameId = gameId /\ s.parts[i].userId = userId}

getParticipant(s, gameId, userId) ==
  IF PartIndex(s, gameId, userId) = {} THEN NoParticipant
  ELSE s.parts[CHOOSE i \in PartIndex(s, gameId, userId) : TRUE]

getParticipantsByGame(s, gameId) == SelectSeq(s.parts, LAMBDA p : p.gameId = gameId)

\* Map.set on the key `${gameId}-${userId}`: a new key is appended, an
\* existing key keeps its place and gets the new row.
addParticipant(s, gameId, userId, isHost, isReady, timeBank, isBot) ==
  LET row == [id |-> s.participantIdCounter, gameId |-> gameId, userId |-> userId,
              isHost |-> isHost, isReady |-> isReady, timeBank |-> timeBank,
              tokensWon |-> 0, isEliminated |-> FALSE, isBot |-> isBot,
              hasBidThisRound |-> FALSE, lastHoldTime |-> 0]
      at == PartIndex(s, gameId, userId)
  IN [s EXCEPT !.participantIdCounter = @ + 1,
               !.parts = IF at = {} THEN Append(@, row)
                         ELSE [i \in 1..Len(@) |-> IF i \in at THEN row ELSE @[i]]]

\* The shape of every MemStorage.updateParticipantX: rewrite one field of the
\* row stored under `${gameId}-${userId}`, nothing when there is no such row.
SetParticipantField(s, gameId, userId, field, value) ==
  [s EXCEPT !.parts = [i \in 1..Len(@) |->
     IF @[i].gameId = gameId /\ @[i].userId = userId
     THEN [@[i] EXCEPT ![field] = value] ELSE @[i]]]

updateParticipantReadyStatus(s, gameId, userId, isReady) ==
  SetParticipantField(s, gameId, userId, "isReady", isReady)

updateParticipantHostStatus(s, gameId, userId, isHost) ==
  SetParticipantField(s, gameId, userId, "isHost", isHost)

updateParticipantTimeBank(s, gameId, userId, timeBank) ==
  SetParticipantField(s, gameId, userId, "timeBank", timeBank)

updateParticipantTokens(s, gameId, userId, tokens) ==
  SetParticipantField(s, gameId, userId, "tokensWon", tokens)

eliminateParticipant(s, gameId, userId) ==
  SetParticipantField(s, gameId, userId, "isEliminated", TRUE)

createRound(s, gameId, roundNumber) ==
  [s EXCEPT !.gameRounds = Append(@, [gameId |-> gameId, roundNumber |-> roundNumber])]

\* Storage calls of routes.ts that storage.ts does not define; modelled from
\* the persistence port of the specification (scalar updates of one row,
\* participant rows addressed by game id and user id like the rest).
updateParticipantBidDetails(s, gameId, userId, hasBidThisRound, lastHoldTime) ==
  SetParticipantField(
    SetParticipantField(s, gameId, userId, "hasBidThisRound", hasBidThisRound),
    gameId, userId, "lastHoldTime", lastHoldTime)

updateGameRoundResults(s, id, roundWinnerId, maxHoldTimeLastRound, currentRound) ==
  IF id \in 1..Len(s.games)
  THEN [s EXCEPT !.games[id].roundWinnerId = roundWinnerId,
                 !.games[id].maxHoldTimeLastRound = maxHoldTimeLastRound,
                 !.games[id].currentRound = currentRound]
  ELSE s

updateGameHost(s, id, userId) ==
  IF id \in 1..Len(s.games) THEN [s EXCEPT !.games[id].hostId = userId] ELSE s

\* ---- connection registry and fan-out ----------------------------------------
Put(f, k, v) == [x \in (DOMAIN f) \cup {k} |-> IF x = k THEN v ELSE f[x]]
Drop(f, k) == [x \in (DOMAIN f) \ {k} |-> f[x]]
EmptyMap == [x \in {} |-> 0]

IsOpen(s, c) == s.conns[c].state = "open"

\* socket.send: out records the message and the sockets it was written to.
Send(s, to, msg) == [s EXCEPT !.out = Append(@, [to |-> to, msg |-> msg])]

\* The GAME_STATE snapshot sendGameState builds; it does not depend on the
\* receiving user.
ClientPlayer(game, p) ==
  [id |-> p.userId, isHost |-> (p.userId = game.createdById), isReady |-> p.isReady,
   timeBank |-> IF p.timeBank = 0 THEN game.startingTimeBank ELSE p.timeBank,
   tokensWon |-> p.tokensWon, isEliminated |-> p.isEliminated,
   hasBidThisRound |-> p.hasBidThisRound, lastHoldTime |-> p.lastHoldTime]

GameStateMessage(s, gameId) ==
  LET game == getGame(s, gameId)
      validParticipants == SelectSeq(getParticipantsByGame(s, gameId), LAMBDA p : p.userId > 0)
  IN [type |-> "GAME_STATE", gameId |-> gameId, status |-> game.status,
      currentRound |-> game.currentRound, totalRounds |-> game.totalRounds,
      players |-> [i \in 1..Len(validParticipants) |-> ClientPlayer(game, validParticipants[i])],
      maxHoldTimeLastRound |-> game.maxHoldTimeLastRound,
      roundWinnerId |-> game.roundWinnerId]

sendGameState(s, gameId, socket) ==
  IF getGame(s, gameId) = NoGame
  THEN Send(s, {socket}, [type |-> "ERROR", message |-> "Game not found"])
  ELSE Send(s, {socket}, GameStateMessage(s, gameId))

handleEmptyGame(s, gameId) ==
  LET game == getGame(s, gameId)
      participants == getParticipantsByGame(s, gameId)
      roomEmpty == gameId \in DOMAIN s.gameClients /\ DOMAIN s.gameClients[gameId] = {}
  IN IF game = NoGame THEN s
     ELSE IF Len(participants) < 2 \/ (game.status = "waiting" /\ roomEmpty)
     THEN [updateGameStatus(s, gameId, "completed") EXCEPT !.gameClients = Drop(@, gameId)]
     ELSE s

\* ResyncTypes without the departure of a player.
ResyncTypesWithoutPlayerLeft == {"ROUND_END", "GAME_START"}

ResyncTypes == {"ROUND_END", "GAME_START", "PLAYER_LEFT"}

broadcastToGame(s, gameId, message) ==
  IF gameId \notin DOMAIN s.gameClients THEN s
  ELSE
    LET clients == s.gameClients[gameId]
        open == {clients[u] : u \in {x \in DOMAIN clients : IsOpen(s, clients[x])}}
        s1 == IF open # {} THEN Send(s, open, message) ELSE s
        s2 == IF message.type \notin {"GAME_STATE", "GAME_CANCELLED"} /\ open = {}
              THEN handleEmptyGame(s1, gameId) ELSE s1
    IN IF message.type \in ResyncTypes /\ open # {}
       THEN Send(s2, open, IF getGame(s2, gameId) = NoGame
                           THEN [type |-> "ERROR", message |-> "Game not found"]
                           ELSE GameStateMessage(s2, gameId))
       ELSE s2

\* ---- handleJoinGame ---------------------------------------------------------
HasHost(s, gameId) == \E i \in 1..Len(s.parts) : s.parts[i].gameId = gameId /\ s.parts[i].isHost

JoinRoom(s, gameId, userId, socket) ==
  LET room == IF gameId \in DOMAIN s.gameClients THEN s.gameClients[gameId] ELSE EmptyMap
      s1 == [s EXCEPT !.gameClients = Put(@, gameId, Put(room, userId, socket))]
      s2 == broadcastToGame(s1, gameId, [type |-> "JOIN_GAME", gameId |-> gameId, userId |-> userId])
  IN sendGameState(s2, gameId, socket)

\* JoinNewParticipant that makes every newcomer a host.
JoinNewParticipantAsHost(s, game, userId) ==
  updateGameHost(addParticipant(s, game.id, userId, TRUE, TRUE, game.startingTimeBank, FALSE),
                 game.id, userId)

JoinNewParticipant(s, game, userId) ==
  LET shouldBeHost == game.createdById = userId /\ ~HasHost(s, game.id)
      s1 == addParticipant(s, game.id, userId, shouldBeHost, shouldBeHost,
                           game.startingTimeBank, FALSE)
  IN IF shouldBeHost THEN updateGameHost(s1, game.id, userId) ELSE s1

JoinPromoteCreator(s, game, userId) ==
  IF HasHost(s, game.id) THEN s
  ELSE LET s1 == updateGameHost(updateParticipantHostStatus(s, game.id, userId, TRUE),
                                game.id, userId)
       IN IF ~getParticipant(s1, game.id, userId).isReady
          THEN updateParticipantReadyStatus(s1, game.id, userId, TRUE) ELSE s1

\* JoinRejected that turns newcomers away from completed games only.
JoinRejectedWhenCompleted(game, participant) ==
  game.status = "completed" /\ participant = NoParticipant

\* if (game.status !== 'waiting') { if (!existingParticipant) ... return; }
JoinRejected(game, participant) == game.status # "waiting" /\ participant = NoParticipant

\* NotYetParticipant without the lookup: every join adds the participant anew.
NotYetParticipantAlways(participant) == TRUE

\* if (!participant) { ... addParticipant ... }
NotYetParticipant(participant) == participant = NoParticipant

handleJoinGame(s, gameId, userId, socket) ==
  LET game == getGame(s, gameId)
      participant == getParticipant(s, gameId, userId)
  IN IF game = NoGame
     THEN Send(s, {socket}, [type |-> "ERROR", message |-> "Game not found"])
     ELSE IF JoinRejected(game, participant)
     THEN Send(s, {socket}, [type |-> "ERROR", message |-> "Game already started"])
     ELSE IF NotYetParticipant(participant)
     THEN IF ~getUser(s, userId)
          THEN Send(s, {socket}, [type |-> "ERROR", message |-> "User not found"])
          ELSE JoinRoom(JoinNewParticipant(s, game, userId), gameId, userId, socket)
     ELSE IF game.createdById = userId /\ ~participant.isHost
     THEN JoinRoom(JoinPromoteCreator(s, game, userId), gameId, userId, socket)
     ELSE JoinRoom(s, gameId, userId, socket)

\* ---- handler frames ----------------------------------------------------------
\* A frame is one invocation of an async handler: pc names the storage call it
\* performs next, the other fields are its parameters and locals.
Frame(kind, pc, gameId, userId, holdTime, isReady) ==
  [kind |-> kind, pc |-> pc, gameId |-> gameId, userId |-> userId,
   holdTime |-> holdTime, isReady |-> isReady,
   game |-> NoGame, participant |-> NoParticipant, participants |-> <<>>,
   roundWinner |-> NoParticipant, maxHoldTimeThisRound |-> 0, i |-> 1]

Goto(s, f, pc) == [s |-> s, f |-> [f EXCEPT !.pc = pc]]
Done(s, f) == Goto(s, f, "done")

\* ---- handlePlayerReady, startGameCountdown, startGame -------------------------
startGameCountdown(s, gameId) ==
  [s EXCEPT !.countdowns = Append(@, [gameId |-> gameId, countdown |-> 3])]

AllReady(participants) == \A i \in 1..Len(participants) : participants[i].isReady

\* ReadyCheck without the minimum of two participants.
ReadyCheckNoMinimum(game, participants) ==
  game # NoGame /\ game.status = "waiting" /\ AllReady(participants)

ReadyCheck(game, participants) ==
  game # NoGame /\ game.status = "waiting" /\ Len(participants) >= 2 /\ AllReady(participants)

ReadyStep(s, f) ==
  CASE f.pc = "updateParticipantReadyStatus" ->
         Goto(broadcastToGame(
                updateParticipantReadyStatus(s, f.gameId, f.userId, f.isReady), f.gameId,
                [type |-> "PLAYER_READY", gameId |-> f.gameId, userId |-> f.userId,
                 isReady |-> f.isReady]),
              f, "getGame")
    [] f.pc = "getGame" ->
         Goto(s, [f EXCEPT !.game = getGame(s, f.gameId)], "getParticipantsByGame")
    [] f.pc = "getParticipantsByGame" ->
         IF ReadyCheck(f.game, getParticipantsByGame(s, f.gameId))
         THEN Done(startGameCountdown(s, f.gameId), f)
         ELSE Done(s, f)

StartGameStep(s, f) ==
  CASE f.pc = "getGame" ->
         LET game == getGame(s, f.gameId)
         IN IF game = NoGame \/ game.status # "waiting" THEN Done(s, f)
            ELSE Goto(s, [f EXCEPT !.game = game], "updateGameStatus")
    [] f.pc = "updateGameStatus" ->
         Goto(updateGameStatus(s, f.gameId, "in_progress"), f, "createRound")
    [] f.pc = "createRound" ->
         LET s1 == createRound(s, f.gameId, 1)
             s2 == broadcastToGame(s1, f.gameId, [type |-> "GAME_START", gameId |-> f.gameId])
         IN Done(broadcastToGame(s2, f.gameId,
                   [type |-> "ROUND_START", gameId |-> f.gameId, roundNumber |-> 1]), f)

\* ---- handleBuzzerRelease, endCurrentRound, endGame ----------------------------
NewTimeBank(timeBank, holdTime) == Max(0, timeBank - (holdTime \div 1000))

AllActivePlayersHaveBid(freshParticipants) ==
  LET activePlayers == SelectSeq(freshParticipants, LAMBDA p : ~p.isEliminated)
      playersWhoHaveBid == SelectSeq(freshParticipants, LAMBDA p : p.hasBidThisRound)
  IN /\ Len(activePlayers) > 0
     /\ \A i \in 1..Len(activePlayers) :
          \E j \in 1..Len(playersWhoHaveBid) :
            playersWhoHaveBid[j].userId = activePlayers[i].userId

\* AlreadyBid without the duplicate check: every release is taken as a first bid.
AlreadyBidNever(participant) == FALSE

\* if (participant.hasBidThisRound) return;
AlreadyBid(participant) == participant.hasBidThisRound

ReleaseStep(s, f) ==
  CASE f.pc = "getGame" ->
         LET game == getGame(s, f.gameId)
         IN IF game = NoGame \/ game.status # "in_progress" THEN Done(s, f)
            ELSE Goto(s, [f EXCEPT !.game = game], "getParticipant")
    [] f.pc = "getParticipant" ->
         LET participant == getParticipant(s, f.gameId, f.userId)
         IN IF participant = NoParticipant \/ participant.isEliminated THEN Done(s, f)
            ELSE IF AlreadyBid(participant) THEN Done(s, f)
            ELSE Goto(s, [f EXCEPT !.participant = participant], "updateParticipantTimeBank")
    [] f.pc = "updateParticipantTimeBank" ->
         Goto(updateParticipantTimeBank(s, f.gameId, f.userId,
                NewTimeBank(f.participant.timeBank, f.holdTime)),
              f, "updateParticipantBidDetails")
    [] f.pc = "updateParticipantBidDetails" ->
         Goto(broadcastToGame(
                [updateParticipantBidDetails(s, f.gameId, f.userId, TRUE, f.holdTime)
                   EXCEPT !.bidsSinceReset[f.gameId] = @ \cup {f.userId}], f.gameId,
                [type |-> "BUZZER_RELEASE", gameId |-> f.gameId, userId |-> f.userId,
                 holdTime |-> f.holdTime]),
              f, "getParticipantsByGame")
    [] f.pc = "getParticipantsByGame" ->
         IF AllActivePlayersHaveBid(getParticipantsByGame(s, f.gameId))
         THEN Goto(s, f, "end_getGame")
         ELSE Done(s, f)

\* A reduce that keeps the first-encountered maximum instead.
RECURSIVE ReduceWinnerFirstMax(_, _, _)
ReduceWinnerFirstMax(prev, bidders, i) ==
  IF i > Len(bidders) THEN prev
  ELSE ReduceWinnerFirstMax(IF prev.lastHoldTime >= bidders[i].lastHoldTime THEN prev
                            ELSE bidders[i],
                            bidders, i + 1)

\* activeBidders.reduce((prev, current) =>
\*   (prev.lastHoldTime > current.lastHoldTime) ? prev : current)
RECURSIVE ReduceWinner(_, _, _)
ReduceWinner(prev, bidders, i) ==
  IF i > Len(bidders) THEN prev
  ELSE ReduceWinner(IF prev.lastHoldTime > bidders[i].lastHoldTime THEN prev ELSE bidders[i],
                    bidders, i + 1)

ActiveBidders(participants) ==
  SelectSeq(participants, LAMBDA p : ~p.isEliminated /\ p.hasBidThisRound)

RoundWinner(participants) ==
  IF Len(ActiveBidders(participants)) > 0
  THEN ReduceWinner(ActiveBidders(participants)[1], ActiveBidders(participants), 2)
  ELSE NoParticipant

IsLastRoundCompleted(game) == (game.currentRound - 1) >= game.totalRounds

RoundEndMessage(game, roundWinner, maxHoldTimeThisRound) ==
  [type |-> "ROUND_END", gameId |-> game.id, roundNumber |-> game.currentRound - 1,
   winnerId |-> roundWinner.id, winnerHoldTime |-> maxHoldTimeThisRound,
   nextRound |-> IF IsLastRoundCompleted(game) THEN -1 ELSE game.currentRound]

AwardToken(s, gameId, roundWinner) ==
  updateParticipantTokens(s, gameId, roundWinner.id, roundWinner.tokensWon + 1)

ResetBid(s, gameId, p) == updateParticipantBidDetails(s, gameId, p.id, FALSE, 0)

EndRoundStep(s, f) ==
  CASE f.pc = "end_getGame" ->
         LET game == getGame(s, f.gameId)
         IN IF game = NoGame \/ game.status # "in_progress" THEN Done(s, f)
            ELSE Goto(s, [f EXCEPT !.game = game], "end_getParticipantsByGame")
    [] f.pc = "end_getParticipantsByGame" ->
         LET participants == getParticipantsByGame(s, f.gameId)
             roundWinner == RoundWinner(participants)
         IN Goto(s, [f EXCEPT !.participants = participants, !.roundWinner = roundWinner,
                              !.maxHoldTimeThisRound =
                                 IF roundWinner = NoParticipant THEN 0
                                 ELSE roundWinner.lastHoldTime],
                 IF roundWinner = NoParticipant THEN "end_updateGameRoundResults"
                 ELSE "end_updateParticipantTokens")
    [] f.pc = "end_updateParticipantTokens" ->
         Goto(AwardToken(s, f.gameId, f.roundWinner), f, "end_updateGameRoundResults")
    [] f.pc = "end_updateGameRoundResults" ->
         Goto([updateGameRoundResults(s, f.gameId, f.roundWinner.id, f.maxHoldTimeThisRound,
                                      f.game.currentRound + 1)
                 EXCEPT !.resolutions = Append(@, [gameId |-> f.gameId,
                                                   roundNumber |-> f.game.currentRound]),
                        !.bidsSinceReset[f.gameId] = {}],
              [f EXCEPT !.i = 1],
              IF Len(f.participants) = 0 THEN "end_refetchGame"
              ELSE "end_updateParticipantBidDetails")
    [] f.pc = "end_updateParticipantBidDetails" ->
         Goto(ResetBid(s, f.gameId, f.participants[f.i]), [f EXCEPT !.i = @ + 1],
              IF f.i >= Len(f.participants) THEN "end_refetchGame"
              ELSE "end_updateParticipantBidDetails")
    [] f.pc = "end_refetchGame" ->
         LET game == getGame(s, f.gameId)
             s1 == broadcastToGame(s, f.gameId,
                     RoundEndMessage(game, f.roundWinner, f.maxHoldTimeThisRound))
         IN IF game = NoGame THEN Done(s, f)
            ELSE IF IsLastRoundCompleted(game) THEN Goto(s1, f, "endGame_getGame")
            ELSE Done([s1 EXCEPT !.roundTimers =
                         Append(@, [gameId |-> f.gameId, roundNumber |-> game.currentRound])], f)

MinTokens(participants) ==
  CHOOSE m \in {participants[i].tokensWon : i \in 1..Len(participants)} :
    \A i \in 1..Len(participants) : m <= participants[i].tokensWon

\* CompareRankings without the time-bank tie-break.
CompareRankingsTokensOnly(a, b) == b.tokens - a.tokens

\* The comparator of sortedRankings: negative when a sorts before b.
CompareRankings(a, b) ==
  IF b.tokens # a.tokens THEN b.tokens - a.tokens ELSE b.timeRemaining - a.timeRemaining

\* Array.prototype.sort is stable: an entry goes after every entry already
\* placed that does not sort after it.
RECURSIVE InsertRanking(_, _)
InsertRanking(sorted, r) ==
  IF sorted = <<>> THEN <<r>>
  ELSE IF CompareRankings(r, sorted[Len(sorted)]) < 0
       THEN Append(InsertRanking(SubSeq(sorted, 1, Len(sorted) - 1), r), sorted[Len(sorted)])
       ELSE Append(sorted, r)

RECURSIVE SortRankings(_, _)
SortRankings(rankings, n) ==
  IF n = 0 THEN <<>> ELSE InsertRanking(SortRankings(rankings, n - 1), rankings[n])

Rankings(participants) ==
  SortRankings([i \in 1..Len(participants) |->
                  [userId |-> participants[i].userId, tokens |-> participants[i].tokensWon,
                   timeRemaining |-> participants[i].timeBank]],
               Len(participants))

ShouldEliminate(participant, lowestTokens) == participant.tokensWon = lowestTokens

EndGameStep(s, f) ==
  CASE f.pc = "endGame_getGame" ->
         IF getGame(s, f.gameId) = NoGame THEN Done(s, f)
         ELSE Goto(s, f, "endGame_updateGameStatus")
    [] f.pc = "endGame_updateGameStatus" ->
         Goto(updateGameStatus(s, f.gameId, "completed"), f, "endGame_getParticipantsByGame")
    [] f.pc = "endGame_getParticipantsByGame" ->
         Goto(s, [f EXCEPT !.participants = getParticipantsByGame(s, f.gameId), !.i = 1],
              "endGame_eliminateParticipant")
    [] f.pc = "endGame_eliminateParticipant" ->
         IF f.i > Len(f.participants)
         THEN Done(broadcastToGame(s, f.gameId,
                     [type |-> "GAME_END", gameId |-> f.gameId,
                      rankings |-> Rankings(f.participants)]), f)
         ELSE Goto(IF ShouldEliminate(f.participants[f.i], MinTokens(f.participants))
                   THEN eliminateParticipant(s, f.gameId, f.participants[f.i].userId)
                   ELSE s,
                   [f EXCEPT !.i = @ + 1], "endGame_eliminateParticipant")

Step(s, f) ==
  CASE f.kind = "ready" -> ReadyStep(s, f)
    [] f.kind = "start" -> StartGameStep(s, f)
    [] f.kind = "release" ->
         IF f.pc \in {"getGame", "getParticipant", "updateParticipantTimeBank",
                      "updateParticipantBidDetails", "getParticipantsByGame"}
         THEN ReleaseStep(s, f)
         ELSE IF f.pc \in {"endGame_getGame", "endGame_updateGameStatus",
                           "endGame_getParticipantsByGame", "endGame_eliminateParticipant"}
         THEN EndGameStep(s, f)
         ELSE EndRoundStep(s, f)

\* A handler run from its first statement to its end with nothing scheduled
\* in between.
RECURSIVE Run(_, _)
Run(s, f) == IF f.pc = "done" THEN s ELSE LET r == Step(s, f) IN Run(r.s, r.f)

handlePlayerReady(s, gameId, userId, isReady) ==
  Run(s, Frame("ready", "updateParticipantReadyStatus", gameId, userId, 0, isReady))

handleBuzzerRelease(s, gameId, userId, holdTime) ==
  Run(s, Frame("release", "getGame", gameId, userId, holdTime, FALSE))

startGame(s, gameId) == Run(s, Frame("start", "getGame", gameId, 0, 0, FALSE))

handleBuzzerHold(s, gameId, userId) ==
  broadcastToGame(s, gameId, [type |-> "BUZZER_HOLD", gameId |-> gameId, userId |-> userId])

\* ---- ws.on('message'), ws.on('close') -----------------------------------------
Error(s, c, message) == Send(s, {c}, [type |-> "ERROR", message |-> message])

\* Identify without the user lookup.
IdentifyWithoutLookup(s, c, data) ==
  IF data.userId = 0 THEN Error(s, c, "User ID required")
  ELSE Send([s EXCEPT !.conns[c].userId = data.userId,
                      !.conns[c].userIdentified = TRUE,
                      !.userSocketMap = Put(@, data.userId, c)],
            {c}, [type |-> "IDENTIFIED", userId |-> data.userId])

Identify(s, c, data) ==
  IF data.userId = 0 THEN Error(s, c, "User ID required")
  ELSE IF ~getUser(s, data.userId) THEN Error(s, c, "User not found")
  ELSE Send([s EXCEPT !.conns[c].userId = data.userId,
                      !.conns[c].userIdentified = TRUE,
                      !.userSocketMap = Put(@, data.userId, c)],
            {c}, [type |-> "IDENTIFIED", userId |-> data.userId])

\* onMessage that takes the acting user of PLAYER_READY and BUZZER_RELEASE from the
\* payload when the payload names one.
onMessagePayloadUser(s, c, data) ==
  LET userId == s.conns[c].userId
      actor == IF data.userId # 0 THEN data.userId ELSE userId
  IN IF data.type = "IDENTIFY" THEN Identify(s, c, data)
     ELSE IF ~s.conns[c].userIdentified \/ userId = 0 THEN Error(s, c, "Please identify first")
     ELSE IF data.type = "JOIN_GAME" /\ data.gameId # 0
     THEN handleJoinGame([s EXCEPT !.conns[c].gameId = data.gameId], data.gameId, userId, c)
     ELSE IF data.type = "PLAYER_READY" /\ data.gameId # 0
     THEN handlePlayerReady(s, data.gameId, actor, data.isReady)
     ELSE IF data.type = "BUZZER_HOLD" /\ data.gameId # 0
     THEN handleBuzzerHold(s, data.gameId, userId)
     ELSE IF data.type = "BUZZER_RELEASE" /\ data.gameId # 0 /\ data.holdTime \in Int
     THEN handleBuzzerRelease(s, data.gameId, actor, data.holdTime)
     ELSE Error(s, c, "Invalid or incomplete message")

\* data.holdTime = "none" stands for a BUZZER_RELEASE without a numeric holdTime.
onMessage(s, c, data) ==
  LET userId == s.conns[c].userId
  IN IF data.type = "IDENTIFY" THEN Identify(s, c, data)
     ELSE IF ~s.conns[c].userIdentified \/ userId = 0 THEN Error(s, c, "Please identify first")
     ELSE IF data.type = "JOIN_GAME" /\ data.gameId # 0
     THEN handleJoinGame([s EXCEPT !.conns[c].gameId = data.gameId], data.gameId, userId, c)
     ELSE IF data.type = "PLAYER_READY" /\ data.gameId # 0
     THEN handlePlayerReady(s, data.gameId, userId, data.isReady)
     ELSE IF data.type = "BUZZER_HOLD" /\ data.gameId # 0
     THEN handleBuzzerHold(s, data.gameId, userId)
     ELSE IF data.type = "BUZZER_RELEASE" /\ data.gameId # 0 /\ data.holdTime \in Int
     THEN handleBuzzerRelease(s, data.gameId, userId, data.holdTime)
     ELSE Error(s, c, "Invalid or incomplete message")

\* onClose without the checks that the registered socket is the closing one.
onCloseAnySocket(s, c) ==
  LET userId == s.conns[c].userId
      gameId == s.conns[c].gameId
      s1 == [s EXCEPT !.conns[c] = [state |-> "closed", userIdentified |-> FALSE,
                                    userId |-> 0, gameId |-> 0],
                      !.userSocketMap = IF userId # 0 /\ userId \in DOMAIN @
                                        THEN Drop(@, userId) ELSE @]
      inRoom == /\ userId # 0 /\ gameId # 0
                /\ gameId \in DOMAIN s1.gameClients
                /\ userId \in DOMAIN s1.gameClients[gameId]
      room == Drop(s1.gameClients[gameId], userId)
      s2 == [s1 EXCEPT !.gameClients = IF DOMAIN room = {} THEN Drop(@, gameId)
                                       ELSE Put(@, gameId, room)]
  IN IF inRoom
     THEN broadcastToGame(s2, gameId, [type |-> "PLAYER_LEFT", gameId |-> gameId, userId |-> userId])
     ELSE s1

onClose(s, c) ==
  LET userId == s.conns[c].userId
      gameId == s.conns[c].gameId
      s1 == [s EXCEPT !.conns[c] = [state |-> "closed", userIdentified |-> FALSE,
                                    userId |-> 0, gameId |-> 0],
                      !.userSocketMap = IF userId # 0 /\ userId \in DOMAIN @ /\ @[userId] = c
                                        THEN Drop(@, userId) ELSE @]
      inRoom == /\ userId # 0 /\ gameId # 0
                /\ gameId \in DOMAIN s1.gameClients
                /\ userId \in DOMAIN s1.gameClients[gameId]
                /\ s1.gameClients[gameId][userId] = c
      room == Drop(s1.gameClients[gameId], userId)
      s2 == [s1 EXCEPT !.gameClients = IF DOMAIN room = {} THEN Drop(@, gameId)
                                       ELSE Put(@, gameId, room)]
  IN IF inRoom
     THEN broadcastToGame(s2, gameId, [type |-> "PLAYER_LEFT", gameId |-> gameId, userId |-> userId])
     ELSE s1

\* ---- HTTP routes ----------------------------------------------------------------
\* addBotsToGame: the bot's user row is created on first use.
addBotsToGame(s, gameId, botCount) ==
  IF botCount = 0 THEN s
  ELSE addParticipant([s EXCEPT !.users = @ \cup {BotUser}], gameId, BotUser,
                      FALSE, TRUE, getGame(s, gameId).startingTimeBank, FALSE)

postGames(s, createdById, totalRounds, botCount, isPublic) ==
  LET s1 == createGame(s, createdById, totalRounds, botCount > 0, isPublic)
      id == Len(s1.games)
      s2 == addParticipant(s1, id, createdById, TRUE, FALSE, StartBank, FALSE)
  IN addBotsToGame(updateGameHost(s2, id, createdById), id, botCount)

postGamesJoin(s, userId, gameId) ==
  LET game == getGame(s, gameId)
  IN IF game = NoGame \/ game.status # "waiting" THEN s
     ELSE IF getParticipant(s, gameId, userId) # NoParticipant THEN s
     ELSE addParticipant(s, gameId, userId, FALSE, FALSE, game.startingTimeBank, FALSE)

\* ---- timers ---------------------------------------------------------------------
RemoveAt(seq, i) == SubSeq(seq, 1, i - 1) \o SubSeq(seq, i + 1, Len(seq))

\* One firing of the setInterval callback of startGameCountdown.
countdownTick(s, i) ==
  LET t == s.countdowns[i]
  IN IF t.countdown <= 0
     THEN startGame([s EXCEPT !.countdowns = RemoveAt(@, i)], t.gameId)
     ELSE broadcastToGame([s EXCEPT !.countdowns[i].countdown = @ - 1], t.gameId,
            [type |-> "GAME_STARTING", gameId |-> t.gameId, countdown |-> t.countdown])

\* The setTimeout callback of endCurrentRound.
roundStartTimeout(s, i) ==
  broadcastToGame([s EXCEPT !.roundTimers = RemoveAt(@, i)], s.roundTimers[i].gameId,
    [type |-> "ROUND_START", gameId |-> s.roundTimers[i].gameId,
     roundNumber |-> s.roundTimers[i].roundNumber])

\* ---- the specification: one message processed to completion at a time ------------
Init ==
  /\ users = Humans
  /\ games = <<>>
  /\ parts = <<>>
  /\ participantIdCounter = 1
  /\ gameRounds = <<>>
  /\ conns = [c \in Conns |-> [state |-> "open", userIdentified |-> TRUE,
                               userId |-> c, gameId |-> 0]]
  /\ gameClients = EmptyMap
  /\ userSocketMap = [u \in Humans |-> u]
  /\ countdowns = <<>>
  /\ roundTimers = <<>>
  /\ frames = <<>>
  /\ resolutions = <<>>
  /\ bidsSinceReset = [g \in GameIds |-> {}]

\* What the model explores of a result state.
WithinBounds(s) ==
  /\ \A g \in 1..Len(s.games) : Len(getParticipantsByGame(s, g)) <= MaxParticipants
  /\ \A i \in 1..Len(s.parts) : s.parts[i].timeBank <= MaxBank
  /\ Len(s.countdowns) <= MaxTimers
  /\ Len(s.resolutions) <= MaxResolutions

Messages ==
  [type : {"JOIN_GAME", "BUZZER_HOLD"}, gameId : GameIds, userId : {0},
   isReady : {FALSE}, holdTime : {0}]
  \cup [type : {"PLAYER_READY"}, gameId : GameIds, userId : {0},
        isReady : BOOLEAN, holdTime : {0}]
  \cup [type : {"BUZZER_RELEASE"}, gameId : GameIds, userId : {0},
        isReady : {FALSE}, holdTime : HoldTimes]

CreateGame ==
  \E u \in Humans, n \in 1..MaxRounds, botCount \in {0, 1} :
    /\ Len(games) < Cardinality(GameIds)
    /\ Becomes(postGames(St, u, n, botCount, TRUE))
    /\ UNCHANGED frames

HttpJoin ==
  \E u \in Humans, g \in GameIds :
    LET r == postGamesJoin(St, u, g)
    IN WithinBounds(r) /\ Becomes(r) /\ UNCHANGED frames

Message ==
  \E c \in Conns, data \in Messages :
    /\ conns[c].state = "open"
    /\ LET r == onMessage(St, c, data)
       IN WithinBounds(r) /\ Becomes(r) /\ UNCHANGED frames

CountdownTick ==
  \E i \in 1..Len(countdowns) :
    /\ Becomes(countdownTick(St, i))
    /\ UNCHANGED frames

RoundStartTimeout ==
  \E i \in 1..Len(roundTimers) :
    /\ Becomes(roundStartTimeout(St, i))
    /\ UNCHANGED frames

Next == CreateGame \/ HttpJoin \/ Message \/ CountdownTick \/ RoundStartTimeout

Spec == Init /\ [][Next]_vars

\* The connections that are open and have identified.
IdentifiedConns == {c \in Conns : conns[c].state = "open" /\ conns[c].userIdentified}

\* ---- the interleaved specification: handlers suspend at their storage calls ----
\* The hold durations of the releases that interleave.
AsyncHoldTimes == {1000}

\* ws.on('message') for BUZZER_RELEASE: the dispatcher's checks run on arrival and
\* handleBuzzerRelease starts, suspended at its first storage call. The releases
\* explored are those a participant sends while its game is in progress.
Receive ==
  \E c \in IdentifiedConns, g \in GameIds, h \in AsyncHoldTimes :
    /\ Len(frames) < MaxFrames
    /\ getGame(St, g) # NoGame
    /\ getGame(St, g).status = "in_progress"
    /\ getParticipant(St, g, conns[c].userId) # NoParticipant
    /\ frames' = Append(frames, Frame("release", "getGame", g, conns[c].userId, h, FALSE))
    /\ UNCHANGED <<users, games, parts, participantIdCounter, gameRounds, conns,
                   gameClients, userSocketMap, countdowns, roundTimers, resolutions,
                   bidsSinceReset>>

\* A participant declares itself ready; the handler ends before anything else is
\* scheduled.
ReceiveAtomic ==
  \E c \in IdentifiedConns, data \in Messages :
    /\ data.type = "PLAYER_READY"
    /\ data.isReady
    /\ getParticipant(St, data.gameId, conns[c].userId) # NoParticipant
    /\ LET r == onMessage(St, c, data)
       IN WithinBounds(r) /\ Becomes(r) /\ UNCHANGED frames

\* A suspended handler resumes and runs to its next storage call.
Resume ==
  \E i \in 1..Len(frames) :
    LET r == Step(St, frames[i])
    IN /\ WithinBounds(r.s)
       /\ Becomes(r.s)
       /\ frames' = IF r.f.pc = "done" THEN RemoveAt(frames, i)
                    ELSE [frames EXCEPT ![i] = r.f]

NextAsync ==
  \/ CreateGame
  \/ HttpJoin
  \/ Receive
  \/ ReceiveAtomic
  \/ Resume
  \/ CountdownTick
  \/ RoundStartTimeout

SpecAsync == Init /\ [][NextAsync]_vars

\* ---- properties -------------------------------------------------------------------
JoinMsg(g) ==
  [type |-> "JOIN_GAME", gameId |-> g, userId |-> 0, isReady |-> FALSE, holdTime |-> 0]

ReadyMsg(g, b) ==
  [type |-> "PLAYER_READY", gameId |-> g, userId |-> 0, isReady |-> b, holdTime |-> 0]

ReleaseMsg(g, h) ==
  [type |-> "BUZZER_RELEASE", gameId |-> g, userId |-> 0, isReady |-> FALSE, holdTime |-> h]

\* The handler that produced r resolved a round.
Resolved(r) == Len(r.resolutions) > Len(resolutions)

\* The number of resolutions of game g so far.
ResolutionCount(g) == Cardinality({i \in 1..Len(resolutions) : resolutions[i].gameId = g})

\* The release of user u for game g passes every check of handleBuzzerRelease.
Accepted(g, u) ==
  /\ getGame(St, g) # NoGame
  /\ getGame(St, g).status = "in_progress"
  /\ getParticipant(St, g, u) # NoParticipant
  /\ ~getParticipant(St, g, u).isEliminated
  /\ ~getParticipant(St, g, u).hasBidThisRound

\* The non-eliminated participants of game g.
Active(s, g) == {i \in 1..Len(s.parts) : s.parts[i].gameId = g /\ ~s.parts[i].isEliminated}

\* C1, flag half: a BUZZER_RELEASE resolves the round if and only if it is accepted
\* and, once it is recorded, every non-eliminated participant has the has-bid flag.
ResolvesIffAllFlagsSet ==
  \A c \in IdentifiedConns, g \in GameIds, h \in HoldTimes :
    LET u == conns[c].userId
        r == onMessage(St, c, ReleaseMsg(g, h))
    IN Resolved(r) <=>
         /\ Accepted(g, u)
         /\ \A i \in Active(St, g) : parts[i].userId = u \/ parts[i].hasBidThisRound

\* C1: a round is resolved if and only if, after an accepted BUZZER_RELEASE, every
\* non-eliminated participant has its has-bid flag set, and no resolution happens
\* while some non-eliminated participant has not bid since the last reset.
C1_ResolvedOnlyWhenAllHaveBid ==
  /\ ResolvesIffAllFlagsSet
  /\ \A c \in IdentifiedConns, g \in GameIds, h \in HoldTimes :
       LET u == conns[c].userId
           r == onMessage(St, c, ReleaseMsg(g, h))
       IN Resolved(r) =>
            \A i \in Active(St, g) : parts[i].userId \in bidsSinceReset[g] \cup {u}

\* C2: no round is resolved twice: for each game and round number there is at most
\* one resolution, also when the handlers of two BUZZER_RELEASE messages interleave
\* at their storage calls.
C2_NoRoundResolvedTwice ==
  \A i, j \in 1..Len(resolutions) : i # j => resolutions[i] # resolutions[j]

\* C3: when a round is resolved with at least one bidder, the token count of the
\* participant whose recorded hold is strictly greatest increases by exactly 1 and
\* no other participant's token count changes.
C3_TokenToGreatestHold ==
  \A c \in IdentifiedConns, g \in GameIds, h \in HoldTimes :
    LET u == conns[c].userId
        r == onMessage(St, c, ReleaseMsg(g, h))
        hold(i) == IF parts[i].userId = u THEN h ELSE parts[i].lastHoldTime
    IN Resolved(r) =>
         \A w \in Active(St, g) :
           (\A i \in Active(St, g) \ {w} : hold(w) > hold(i)) =>
             /\ r.parts[w].tokensWon = parts[w].tokensWon + 1
             /\ \A i \in 1..Len(parts) :
                  i # w => r.parts[i].tokensWon = parts[i].tokensWon

\* The messages of type ty that the handler that produced r sent.
Sent(r, ty) == {i \in 1..Len(r.out) : r.out[i].msg.type = ty}

\* C4: a game with totalRounds = N is completed exactly when its N-th round has been
\* resolved, and the ROUND_END of the N-th resolution carries nextRound = -1 and is
\* followed by GAME_END.
C4_CompletedAtNthResolution ==
  /\ \A g \in 1..Len(games) :
       games[g].status = "completed" <=> ResolutionCount(g) >= games[g].totalRounds
  /\ \A c \in IdentifiedConns, g \in GameIds, h \in HoldTimes :
       LET r == onMessage(St, c, ReleaseMsg(g, h))
       IN (Resolved(r) /\ ResolutionCount(g) + 1 = games[g].totalRounds
             /\ g \in DOMAIN gameClients) =>
            /\ \A i \in Sent(r, "ROUND_END") : r.out[i].msg.nextRound = -1
            /\ \E i \in Sent(r, "ROUND_END"), j \in Sent(r, "GAME_END") : i < j

\* C5: a BUZZER_RELEASE from a participant whose has-bid flag is already set changes
\* no state and sends no message, not even an ERROR.
C5_DuplicateReleaseIsSilent ==
  \A c \in IdentifiedConns, g \in GameIds, h \in HoldTimes :
    LET p == getParticipant(St, g, conns[c].userId)
    IN (p # NoParticipant /\ p.hasBidThisRound) => onMessage(St, c, ReleaseMsg(g, h)) = St

\* C5 witness: in a game in progress, a participant that has bid in the round while
\* another has not, so that its next BUZZER_RELEASE is a duplicate.
C5_Witness ==
  \E c \in IdentifiedConns, g \in 1..Len(games) :
    /\ games[g].status = "in_progress"
    /\ conns[c].userId \in bidsSinceReset[g]
    /\ getParticipant(St, g, conns[c].userId).hasBidThisRound
    /\ \E i \in Active(St, g) : ~parts[i].hasBidThisRound

\* C6: no step increases a participant's time bank or makes it negative, whatever
\* numeric holdTime a BUZZER_RELEASE carries.
C6_TimeBankNeverIncreases ==
  [][\A i \in 1..Len(parts) :
       parts'[i].timeBank <= parts[i].timeBank /\ parts'[i].timeBank >= 0]_vars

\* The fields of a participant that a rejoin must leave alone.
Kept(p) == <<p.isReady, p.isHost, p.tokensWon, p.timeBank, p.isEliminated>>

\* C7: JOIN_GAME is idempotent: there is one participant per (gameId, userId), and
\* a JOIN_GAME by a user who already has a participant adds none and leaves its ready
\* flag, host flag, token count, time bank and eliminated flag unchanged.
C7_JoinIdempotent ==
  /\ \A i, j \in 1..Len(parts) :
       (parts[i].gameId = parts[j].gameId /\ parts[i].userId = parts[j].userId) => i = j
  /\ \A c \in IdentifiedConns, g \in GameIds :
       LET u == conns[c].userId
           r == onMessage(St, c, JoinMsg(g))
       IN getParticipant(St, g, u) # NoParticipant =>
            /\ Len(r.parts) = Len(parts)
            /\ Cardinality(PartIndex(r, g, u)) = 1
            /\ Kept(getParticipant(r, g, u)) = Kept(getParticipant(St, g, u))

\* C7 witness: a user already in the room of a game, whose participant is ready and
\* has won a token, can send JOIN_GAME again.
C7_Witness ==
  \E c \in IdentifiedConns, g \in DOMAIN gameClients :
    /\ conns[c].userId \in DOMAIN gameClients[g]
    /\ getParticipant(St, g, conns[c].userId) # NoParticipant
    /\ getParticipant(St, g, conns[c].userId).isReady
    /\ getParticipant(St, g, conns[c].userId).tokensWon > 0

\* C8: a JOIN_GAME for a game that is not waiting, from a user with no participant
\* in it, sends ERROR 'Game already started' to that connection only, and changes no
\* participant, no game and no room.
C8_LateJoinRejected ==
  \A c \in IdentifiedConns, g \in GameIds :
    LET game == getGame(St, g)
        r == onMessage(St, c, JoinMsg(g))
    IN (game # NoGame /\ game.status # "waiting"
          /\ getParticipant(St, g, conns[c].userId) = NoParticipant) =>
         /\ r.out = <<[to |-> {c},
                       msg |-> [type |-> "ERROR", message |-> "Game already started"]]>>
         /\ r.parts = parts
         /\ r.games = games
         /\ r.gameClients = gameClients

\* C8 witness: a game in progress and an identified user who is not one of its
\* participants.
C8_Witness ==
  \E c \in IdentifiedConns, g \in 1..Len(games) :
    /\ games[g].status = "in_progress"
    /\ getParticipant(St, g, conns[c].userId) = NoParticipant

\* rk is ordered by tokens descending, then by remaining time bank descending.
Ordered(rk) ==
  \A i \in 1..(Len(rk) - 1) :
    \/ rk[i].tokens > rk[i + 1].tokens
    \/ rk[i].tokens = rk[i + 1].tokens /\ rk[i].timeRemaining >= rk[i + 1].timeRemaining

\* C9: when a release completes the game through endGame, exactly the participants
\* whose token count is the minimum over the game's participants are eliminated, and
\* the rankings of GAME_END hold every participant once, with its tokens and time
\* bank, ordered by tokens descending and then by time bank descending.
C9_EndGameEliminatesAndRanks ==
  \A c \in IdentifiedConns, g \in GameIds, h \in HoldTimes :
    LET r == onMessage(St, c, ReleaseMsg(g, h))
        ps == getParticipantsByGame(r, g)
    IN (getGame(St, g) # NoGame /\ getGame(St, g).status = "in_progress"
          /\ getGame(r, g).status = "completed") =>
         /\ \A i \in 1..Len(ps) :
              ps[i].isEliminated <=> \A j \in 1..Len(ps) : ps[i].tokensWon <= ps[j].tokensWon
         /\ g \in DOMAIN gameClients =>
              /\ Cardinality(Sent(r, "GAME_END")) = 1
              /\ \A k \in Sent(r, "GAME_END") :
                   LET rk == r.out[k].msg.rankings
                   IN /\ Len(rk) = Len(ps)
                      /\ \A i \in 1..Len(ps) :
                           Cardinality({n \in 1..Len(rk) :
                             rk[n] = [userId |-> ps[i].userId, tokens |-> ps[i].tokensWon,
                                      timeRemaining |-> ps[i].timeBank]}) = 1
                      /\ Ordered(rk)

\* C9 witness: a game completed by its last resolution, with a connection in its
\* room, one participant eliminated and another not.
C9_Witness ==
  \E g \in DOMAIN gameClients :
    /\ games[g].status = "completed"
    /\ ResolutionCount(g) > 0
    /\ gameClients[g] # EmptyMap
    /\ \E i, j \in 1..Len(parts) :
         /\ parts[i].gameId = g /\ parts[i].isEliminated
         /\ parts[j].gameId = g /\ ~parts[j].isEliminated

\* The participants of game g in s that are human and not eliminated.
HumanActive(s, g) == {i \in Active(s, g) : s.parts[i].userId \in Humans}

\* The handler that produced r started the countdown of a game.
CountdownTriggered(r) == Len(r.countdowns) > Len(countdowns)

\* C10 as stated: the countdown is triggered only when the game is waiting, at least
\* 2 of its participants are non-bot and non-eliminated and every participant is
\* ready; a game with fewer than 2 human participants never starts.
C10_CountdownNeedsTwoHumans ==
  /\ \A c \in IdentifiedConns, data \in Messages :
       LET r == onMessage(St, c, data)
           ps == getParticipantsByGame(r, data.gameId)
       IN CountdownTriggered(r) =>
            /\ getGame(r, data.gameId).status = "waiting"
            /\ Cardinality(HumanActive(r, data.gameId)) >= 2
            /\ \A i \in 1..Len(ps) : ps[i].isReady
  /\ \A g \in 1..Len(games) :
       games[g].status = "in_progress" => Cardinality(HumanActive(St, g)) >= 2

\* C10 amended: the countdown is triggered only by a PLAYER_READY that finds the
\* game waiting, at least 2 participants, bots counted, and every participant ready.
C10_CountdownNeedsTwoParticipants ==
  \A c \in IdentifiedConns, data \in Messages :
    LET r == onMessage(St, c, data)
        ps == getParticipantsByGame(r, data.gameId)
    IN CountdownTriggered(r) =>
         /\ data.type = "PLAYER_READY"
         /\ getGame(r, data.gameId).status = "waiting"
         /\ Len(ps) >= 2
         /\ \A i \in 1..Len(ps) : ps[i].isReady

\* C10 witness: the countdown of a game of one human and one bot is running.
C10_Witness ==
  \E i \in 1..Len(countdowns) :
    LET ps == getParticipantsByGame(St, countdowns[i].gameId)
    IN /\ Len(ps) = 2
       /\ Cardinality({n \in 1..Len(ps) : ps[n].userId \in Humans}) = 1

\* C11: immediately after startGame moves a game from waiting to in_progress, the
\* game's currentRound equals 1.
C11_StartSetsRoundOne ==
  \A i \in 1..Len(countdowns) :
    LET g == countdowns[i].gameId
        r == countdownTick(St, i)
    IN (getGame(St, g).status = "waiting" /\ getGame(r, g).status = "in_progress")
         => getGame(r, g).currentRound = 1

\* The non-eliminated participants of game g that tie on the greatest hold recorded
\* once user u's release of h is recorded.
TiedForGreatest(g, u, h) ==
  LET hold(i) == IF parts[i].userId = u THEN h ELSE parts[i].lastHoldTime
  IN {w \in Active(St, g) : \A i \in Active(St, g) : hold(w) >= hold(i)}

\* The latest position of a non-empty set of positions.
Latest(S) == CHOOSE x \in S : \A y \in S : x >= y

\* C12 as stated: when two or more non-eliminated bidders tie on the greatest hold
\* of a resolved round, the winner is the tied participant whose release was
\* processed first. The release that resolves the round is the last one processed,
\* so its sender is never the winner of a tie.
C12_TieToFirstBidder ==
  \A c \in IdentifiedConns, g \in GameIds, h \in HoldTimes :
    LET u == conns[c].userId
        r == onMessage(St, c, ReleaseMsg(g, h))
        tied == TiedForGreatest(g, u, h)
    IN (/\ Resolved(r)
        /\ Cardinality(tied) >= 2
        /\ \A w \in tied : parts[w].userId \in bidsSinceReset[g] \cup {u})
         => r.games[g].roundWinnerId # getParticipant(St, g, u).id

\* C12: when two or more non-eliminated bidders tie on the greatest hold of a
\* resolved round, the winner is the tied participant that is latest in the game's
\* participant order, whatever the order in which the releases were processed.
C12_TieToLastInParticipantOrder ==
  \A c \in IdentifiedConns, g \in GameIds, h \in HoldTimes :
    LET u == conns[c].userId
        r == onMessage(St, c, ReleaseMsg(g, h))
        tied == TiedForGreatest(g, u, h)
    IN (Resolved(r) /\ Cardinality(tied) >= 2)
         => r.games[g].roundWinnerId = parts[Latest(tied)].id

\* A release is about to resolve a round in which two bidders tie on the greatest
\* hold, and the sender of the release is not the last tied participant.
C12_Witness ==
  \E c \in IdentifiedConns, g \in GameIds, h \in HoldTimes :
    LET u == conns[c].userId
        r == onMessage(St, c, ReleaseMsg(g, h))
        tied == TiedForGreatest(g, u, h)
    IN /\ Resolved(r)
       /\ Cardinality(tied) >= 2
       /\ parts[Latest(tied)].userId # u
       /\ parts[Latest(tied)].userId \in bidsSinceReset[g]

\* The positions of the participants of game g, and of its hosts.
ParticipantsOf(s, g) == {i \in 1..Len(s.parts) : s.parts[i].gameId = g}

HostsOf(s, g) == {i \in ParticipantsOf(s, g) : s.parts[i].isHost}

\* C14: every game that has participants has exactly one participant with the host
\* flag, and whenever the creator of the game has a participant, that host is the
\* creator's participant.
C14_ExactlyOneHost ==
  \A g \in 1..Len(games) :
    ParticipantsOf(St, g) # {} =>
      /\ Cardinality(HostsOf(St, g)) = 1
      /\ \A i \in ParticipantsOf(St, g) :
           parts[i].userId = games[g].createdById => parts[i].isHost

\* A game has a participant other than its creator and the creator's connection is
\* in the room of the game: both join paths of handleJoinGame have run.
C14_Witness ==
  \E g \in 1..Len(games) :
    /\ \E i \in ParticipantsOf(St, g) : parts[i].userId \in Humans \ {games[g].createdById}
    /\ g \in DOMAIN gameClients
    /\ Cardinality(DOMAIN gameClients[g]) >= 2
    /\ games[g].createdById \in DOMAIN gameClients[g]

\* C15: whenever the creator's participant is assigned host status its ready flag
\* is true at that moment; the host of a newly created game is ready without having
\* sent PLAYER_READY.
C15_HostIsReadyWhenAssigned ==
  /\ \A u \in Humans, botCount \in {0, 1} :
       LET r == postGames(St, u, 1, botCount, TRUE)
           p == getParticipant(r, Len(r.games), u)
       IN p.isHost => p.isReady
  /\ \A c \in IdentifiedConns, g \in GameIds :
       LET u == conns[c].userId
           before == getParticipant(St, g, u)
           after == getParticipant(onMessage(St, c, JoinMsg(g)), g, u)
       IN (/\ after # NoParticipant
           /\ after.isHost
           /\ (before = NoParticipant \/ ~before.isHost)) => after.isReady

\* C16: once a game is completed, PLAYER_READY and BUZZER_RELEASE messages for that
\* game change no participant field and no game field.
C16_CompletedGameIsFrozen ==
  \A c \in IdentifiedConns, g \in GameIds :
    \A data \in {ReadyMsg(g, b) : b \in BOOLEAN} \cup {ReleaseMsg(g, h) : h \in HoldTimes} :
      LET r == onMessage(St, c, data)
      IN (getGame(St, g) # NoGame /\ getGame(St, g).status = "completed")
           => (r.parts = parts /\ r.games = games)

\* The user and ready flag of every participant of game g.
Lobby(s, g) == {<<s.parts[i].userId, s.parts[i].isReady>> : i \in ParticipantsOf(s, g)}

\* C18: from the moment the start countdown of a game begins until the game enters
\* in_progress, no participant is added to the game and no participant's ready flag
\* changes, so that the game enters in_progress with the participants it had when
\* the countdown began, all of them ready.
C18_CountdownFreezesLobby ==
  \A i \in 1..Len(countdowns) :
    LET g == countdowns[i].gameId
    IN getGame(St, g).status = "waiting" =>
         /\ \A u \in Humans : Lobby(postGamesJoin(St, u, g), g) = Lobby(St, g)
         /\ \A c \in IdentifiedConns :
              \A data \in {JoinMsg(g), ReadyMsg(g, TRUE), ReadyMsg(g, FALSE)} :
                Lobby(onMessage(St, c, data), g) = Lobby(St, g)
         /\ LET r == countdownTick(St, i)
            IN getGame(r, g).status = "in_progress" =>
                 \A n \in ParticipantsOf(r, g) : r.parts[n].isReady

\* ---- the registry specification: connections open, identify, join and close ----
\* The connections and games of the registry specification.
MaxConns == 2
MaxGames == 2

RegConns == 1..MaxConns
RegGameIds == 1..MaxGames
RegUsers == {u \in Humans : u <= MaxConns}

IdentifyMsg(u) ==
  [type |-> "IDENTIFY", gameId |-> 0, userId |-> u, isReady |-> FALSE, holdTime |-> 0]

\* A message of a type the dispatcher does not know.
UnknownMsg(g) ==
  [type |-> "CHAT", gameId |-> g, userId |-> 0, isReady |-> FALSE, holdTime |-> 0]

\* wss.on('connection'): the closure starts with userIdentified false and no user
\* or game.
onConnection(s, c) ==
  [s EXCEPT !.conns[c] = [state |-> "open", userIdentified |-> FALSE,
                          userId |-> 0, gameId |-> 0]]

InitReg ==
  /\ users = Humans
  /\ games = <<>>
  /\ parts = <<>>
  /\ participantIdCounter = 1
  /\ gameRounds = <<>>
  /\ conns = [c \in Conns |-> [state |-> "idle", userIdentified |-> FALSE,
                               userId |-> 0, gameId |-> 0]]
  /\ gameClients = EmptyMap
  /\ userSocketMap = EmptyMap
  /\ countdowns = <<>>
  /\ roundTimers = <<>>
  /\ frames = <<>>
  /\ resolutions = <<>>
  /\ bidsSinceReset = [g \in GameIds |-> {}]

RegConnect ==
  \E c \in RegConns :
    /\ conns[c].state = "idle"
    /\ Becomes(onConnection(St, c))
    /\ UNCHANGED frames

RegCreateGame ==
  \E u \in RegUsers :
    /\ Len(games) < MaxGames
    /\ Becomes(postGames(St, u, 1, 0, TRUE))
    /\ UNCHANGED frames

RegIdentify ==
  \E c \in RegConns, u \in RegUsers \cup {0, UnknownUser} :
    /\ conns[c].state = "open"
    /\ Becomes(onMessage(St, c, IdentifyMsg(u)))
    /\ UNCHANGED frames

RegJoin ==
  \E c \in RegConns, g \in RegGameIds :
    /\ conns[c].state = "open"
    /\ LET r == onMessage(St, c, JoinMsg(g))
       IN WithinBounds(r) /\ Becomes(r) /\ UNCHANGED frames

RegClose ==
  \E c \in RegConns :
    /\ conns[c].state = "open"
    /\ Becomes(onClose(St, c))
    /\ UNCHANGED frames

NextReg == RegConnect \/ RegCreateGame \/ RegIdentify \/ RegJoin \/ RegClose

SpecReg == InitReg /\ [][NextReg]_vars

\* The handler that produced r answered connection c with one ERROR and changed
\* nothing.
OnlyError(r, c) ==
  /\ Len(r.out) = 1
  /\ r.out[1].to = {c}
  /\ r.out[1].msg.type = "ERROR"
  /\ [r EXCEPT !.out = <<>>] = St

\* The messages other than IDENTIFY a client can send about game g.
NonIdentify(g) ==
  {JoinMsg(g), ReadyMsg(g, TRUE), ReadyMsg(g, FALSE), UnknownMsg(g),
   [JoinMsg(g) EXCEPT !.type = "BUZZER_HOLD"]}
  \cup {ReleaseMsg(g, h) : h \in HoldTimes}

\* C13: on a connection that has not identified, every message other than IDENTIFY
\* is answered with an ERROR to that connection and changes no game, participant
\* or registry state; an IDENTIFY that names an unknown user is answered with an
\* ERROR and leaves the connection unidentified.
C13_UnidentifiedGetsError ==
  \A c \in Conns :
    (conns[c].state = "open" /\ ~conns[c].userIdentified) =>
      /\ \A g \in RegGameIds :
           \A data \in NonIdentify(g) : OnlyError(onMessage(St, c, data), c)
      /\ \A u \in {0, UnknownUser} :
           LET r == onMessage(St, c, IdentifyMsg(u))
           IN OnlyError(r, c) /\ ~r.conns[c].userIdentified

\* A connection is open and unidentified while a waiting game exists whose creator
\* is registered on another connection that is in the room of the game.
C13_Witness ==
  \E c \in Conns, g \in 1..Len(games) :
    /\ conns[c].state = "open"
    /\ ~conns[c].userIdentified
    /\ games[g].status = "waiting"
    /\ g \in DOMAIN gameClients
    /\ games[g].createdById \in DOMAIN gameClients[g]
    /\ gameClients[g][games[g].createdById] # c

\* The rooms connection c is a member of.
RoomsOf(c) ==
  {g \in DOMAIN gameClients : \E u \in DOMAIN gameClients[g] : gameClients[g][u] = c}

\* C19: every connection is a member of at most one game room, also after it has
\* sent JOIN_GAME for a second game while in the room of a first.
C19_AtMostOneRoom ==
  \A c \in Conns : Cardinality(RoomsOf(c)) <= 1

\* C20: after a connection has closed no registry structure refers to it: it is in
\* no game room and it is not the registered connection of any user.
C20_ClosedConnectionIsForgotten ==
  \A c \in Conns :
    conns[c].state = "closed" =>
      /\ RoomsOf(c) = {}
      /\ \A u \in DOMAIN userSocketMap : userSocketMap[u] # c

\* ---- the sweeper specification: startGame suspends, cleanupGames runs -----------
\* The sockets of the room of game gameId that are open.
ActiveClients(s, gameId) ==
  IF gameId \notin DOMAIN s.gameClients THEN 0
  ELSE Cardinality({u \in DOMAIN s.gameClients[gameId] :
                      IsOpen(s, s.gameClients[gameId][u])})

\* The body of the loop of cleanupGames for the games from position i on; the
\* games it visits are those getPublicGames returned.
RECURSIVE cleanupFrom(_, _)
cleanupFrom(s, i) ==
  IF i > Len(s.games) THEN s
  ELSE LET game == s.games[i]
           listed == game.isPublic /\ game.status = "waiting"
           stale == \/ Len(getParticipantsByGame(s, game.id)) < 2
                    \/ (ActiveClients(s, game.id) = 0 /\ game.status = "waiting")
       IN cleanupFrom(IF listed /\ stale
                      THEN [updateGameStatus(s, game.id, "completed")
                              EXCEPT !.gameClients = Drop(@, game.id)]
                      ELSE s,
                      i + 1)

cleanupGames(s) == cleanupFrom(s, 1)

\* The setInterval callback of startGameCountdown; at 0 it calls startGame, which
\* suspends at storage.getGame.
CountdownTickAsync ==
  \E i \in 1..Len(countdowns) :
    IF countdowns[i].countdown <= 0
    THEN /\ Len(frames) < MaxFrames
         /\ Becomes([St EXCEPT !.countdowns = RemoveAt(@, i)])
         /\ frames' = Append(frames, Frame("start", "getGame", countdowns[i].gameId, 0, 0, FALSE))
    ELSE Becomes(countdownTick(St, i)) /\ UNCHANGED frames

\* A connection joins the room of a game.
ReceiveJoin ==
  \E c \in IdentifiedConns, g \in GameIds :
    LET r == onMessage(St, c, JoinMsg(g))
    IN WithinBounds(r) /\ Becomes(r) /\ UNCHANGED frames

\* POST /api/games with isPublic false.
CreatePrivateGame ==
  \E u \in Humans, botCount \in {0, 1} :
    /\ Len(games) < Cardinality(GameIds)
    /\ Becomes(postGames(St, u, 1, botCount, FALSE))
    /\ UNCHANGED frames

\* The setInterval callback that runs cleanupGames.
Sweep == Becomes(cleanupGames(St)) /\ UNCHANGED frames

NextSweep ==
  \/ CreateGame
  \/ CreatePrivateGame
  \/ HttpJoin
  \/ ReceiveJoin
  \/ ReceiveAtomic
  \/ CountdownTickAsync
  \/ Resume
  \/ Sweep

SpecSweep == Init /\ [][NextSweep]_vars

\* The position of a status in the life of a game.
StatusRank(status) ==
  CASE status = "waiting" -> 1
    [] status = "in_progress" -> 2
    [] status = "completed" -> 3

\* C17: completed is absorbing and a game's status only moves forward, also when
\* startGame or endCurrentRound, suspended at a storage call after reading the
\* status, resumes after the sweeper or handleEmptyGame has completed the game.
C17_StatusOnlyMovesForward ==
  [][\A g \in 1..Len(games) :
       StatusRank(games'[g].status) >= StatusRank(games[g].status)]_vars

\* The close of connection c removes it from the room of the game of its closure.
ClosesInRoom(c) ==
  /\ conns[c].state = "open"
  /\ conns[c].userId # 0
  /\ conns[c].gameId \in DOMAIN gameClients
  /\ conns[c].userId \in DOMAIN gameClients[conns[c].gameId]
  /\ gameClients[conns[c].gameId][conns[c].userId] = c

\* The connections other than c in the room of the game of c's closure.
OthersInRoom(c) ==
  {gameClients[conns[c].gameId][u] : u \in DOMAIN gameClients[conns[c].gameId] \ {conns[c].userId}}

\* C21: when a close removes the last connection from the room of a game, the
\* room-emptiness check runs for the game, so that a waiting game left with no
\* live connection is completed by that close; when other connections remain,
\* they receive PLAYER_LEFT.
C21_LastCloseCompletesWaitingGame ==
  \A c \in Conns :
    ClosesInRoom(c) =>
      LET g == conns[c].gameId
          r == onClose(St, c)
          live == {d \in OthersInRoom(c) : IsOpen(St, d)}
      IN /\ (OthersInRoom(c) = {} /\ getGame(St, g).status = "waiting")
              => getGame(r, g).status = "completed"
         /\ live # {} => \E i \in Sent(r, "PLAYER_LEFT") : r.out[i].to = live

\* Game g is one the sweeper is to complete: not completed, and with fewer than 2
\* participants or waiting with no live connection.
SweepDue(g) ==
  /\ games[g].status # "completed"
  /\ \/ Len(getParticipantsByGame(St, g)) < 2
     \/ (games[g].status = "waiting" /\ ActiveClients(St, g) = 0)

\* C22: a sweeper pass completes every game, public or private, waiting or in
\* progress, that is not completed and has fewer than 2 participants or is waiting
\* with no live connection, and deletes its room; it changes the status of no
\* other game.
C22_SweepCompletesEveryDueGame ==
  \A g \in 1..Len(games) :
    LET r == cleanupGames(St)
    IN IF SweepDue(g)
       THEN r.games[g].status = "completed" /\ g \notin DOMAIN r.gameClients
       ELSE r.games[g].status = games[g].status

\* A participant of a game in progress releases the buzzer; the handler ends before
\* anything else is scheduled.
ReceiveRelease ==
  \E c \in IdentifiedConns, g \in GameIds, h \in HoldTimes :
    /\ getGame(St, g) # NoGame
    /\ getGame(St, g).status = "in_progress"
    /\ getParticipant(St, g, conns[c].userId) # NoParticipant
    /\ LET r == onMessage(St, c, ReleaseMsg(g, h))
       IN WithinBounds(r) /\ Becomes(r) /\ UNCHANGED frames

NextSweepFair ==
  \/ CreateGame
  \/ HttpJoin
  \/ ReceiveAtomic
  \/ ReceiveRelease
  \/ CountdownTickAsync
  \/ Resume
  \/ Sweep

\* The sweeper specification with the scheduling the runtime guarantees: the
\* sweeper's interval and the countdown's interval keep firing and a suspended
\* handler is resumed. Nothing obliges a client to send anything.
SpecSweepFair ==
  /\ Init
  /\ [][NextSweepFair]_vars
  /\ WF_vars(Sweep)
  /\ WF_vars(CountdownTickAsync)
  /\ WF_vars(Resume)

\* C23: every started game eventually reaches completed: with the sweeper passing
\* again and again, a game in progress whose round cannot resolve because a
\* non-eliminated participant never releases is eventually completed.
C23_StartedGameIsEventuallyCompleted ==
  \A g \in GameIds :
    (g <= Len(games) /\ games[g].status = "in_progress")
      ~> (g <= Len(games) /\ games[g].status = "completed")

\* ---- the bot specification: the bot action timer runs beside the players -------
\* The setInterval callback of the bot action timer: it selects the in-progress
\* games with bots among storage.getPublicGames(); the body of its loop over
\* them is empty.
botActionTimer(s) ==
  LET allGames == getPublicGames(s)
      inProgressGamesWithBots ==
        SelectSeq(allGames, LAMBDA g : g.status = "in_progress" /\ g.hasBots)
  IN IF Len(inProgressGamesWithBots) > 0 THEN s ELSE s

BotTimer == Becomes(botActionTimer(St)) /\ UNCHANGED frames

NextBots ==
  \/ CreateGame
  \/ HttpJoin
  \/ ReceiveAtomic
  \/ ReceiveRelease
  \/ CountdownTick
  \/ RoundStartTimeout
  \/ BotTimer

\* The timers keep firing; nothing obliges a client to send anything.
SpecBots ==
  /\ Init
  /\ [][NextBots]_vars
  /\ WF_vars(BotTimer)
  /\ WF_vars(CountdownTick)
  /\ WF_vars(RoundStartTimeout)

\* Participant row i is a non-eliminated bot of a game in progress.
BotInPlay(i) ==
  /\ i <= Len(parts)
  /\ parts[i].userId = BotUser
  /\ ~parts[i].isEliminated
  /\ getGame(St, parts[i].gameId).status = "in_progress"

\* C24: in a game in progress every non-eliminated bot that has not bid in the
\* current round eventually gets a bid recorded by the periodic bot driver, without
\* any human input, so that a round in which all humans have released resolves.
C24_BotEventuallyBids ==
  \A i \in 1..MaxParticipants :
    (BotInPlay(i) /\ ~parts[i].hasBidThisRound) ~> (BotInPlay(i) /\ parts[i].hasBidThisRound)

\* ---- processBotActions (bots.ts) ----------------------------------------------
\* The ids of the entries of the bots table.
BotIds == {0 - n : n \in 1..6}

\* The loop over botParticipants from position i on; holdTime stands for what
\* determineBotHoldTime returns. The bid row it creates is not part of the state
\* the game logic reads.
RECURSIVE processBotsFrom(_, _, _, _, _)
processBotsFrom(s, gameId, botParticipants, i, holdTime) ==
  IF i > Len(botParticipants) THEN s
  ELSE LET botParticipant == botParticipants[i]
           newTimeBank == Max(0, botParticipant.timeBank - (holdTime \div 1000))
       IN processBotsFrom(IF botParticipant.isEliminated THEN s
                          ELSE updateParticipantTimeBank(s, gameId, botParticipant.userId,
                                                         newTimeBank),
                          gameId, botParticipants, i + 1, holdTime)

processBotActions(s, gameId, holdTime) ==
  LET game == getGame(s, gameId)
      participants == getParticipantsByGame(s, gameId)
      botParticipants == SelectSeq(participants, LAMBDA p : p.userId \in BotIds)
  IN IF game = NoGame \/ game.status # "in_progress" THEN s
     ELSE IF Len(participants) = 0 THEN s
     ELSE IF Len(botParticipants) = 0 THEN s
     ELSE processBotsFrom(s, gameId, botParticipants, 1, holdTime)

\* The hold durations of the bots that are explored.
BotHoldTimes == {1000}

\* C25: a bot's bid goes through the release path of a human's bid: a run of
\* processBotActions sets the has-bid flag of every non-eliminated bot that has not
\* bid in the round, a further run in the same round deducts nothing more from
\* its time bank, and the bot bid that completes the set of bids resolves the
\* round.
C25_BotBidsLikeAHuman ==
  \A i \in 1..MaxParticipants, h \in BotHoldTimes :
    (BotInPlay(i) /\ ~parts[i].hasBidThisRound) =>
      LET g == parts[i].gameId
          r == processBotActions(St, g, h)
          again == processBotActions(r, g, h)
      IN /\ r.parts[i].hasBidThisRound
         /\ again.parts[i].timeBank = r.parts[i].timeBank
         /\ (\A n \in Active(St, g) \ {i} : parts[n].hasBidThisRound) => Resolved(r)

\* The open connections in the room of game g.
LiveInRoom(g) ==
  {gameClients[g][u] : u \in {x \in DOMAIN gameClients[g] : IsOpen(St, gameClients[g][x])}}

\* Every ROUND_END, GAME_START or PLAYER_LEFT the handler that produced r sent is
\* followed by a GAME_STATE of the same game to the same connections.
Resynced(r) ==
  \A i \in 1..Len(r.out) :
    r.out[i].msg.type \in {"ROUND_END", "GAME_START", "PLAYER_LEFT"} =>
      \E j \in (i + 1)..Len(r.out) :
        /\ r.out[j].msg.type = "GAME_STATE"
        /\ r.out[j].msg.gameId = r.out[i].msg.gameId
        /\ r.out[j].to = r.out[i].to

\* C26: after each ROUND_END, GAME_START or PLAYER_LEFT broadcast for a game, every
\* open connection in the room of the game is sent a GAME_STATE snapshot of that
\* game.
C26_StateResentAfterStructuralEvent ==
  /\ \A c \in Conns : conns[c].state = "open" => Resynced(onClose(St, c))
  /\ \A g \in DOMAIN gameClients, ty \in {"ROUND_END", "GAME_START", "PLAYER_LEFT"} :
       LET r == broadcastToGame(St, g, [type |-> ty, gameId |-> g])
       IN LiveInRoom(g) # {} =>
            /\ \E i \in Sent(r, ty) : r.out[i].to = LiveInRoom(g)
            /\ Resynced(r)

\* A connection is about to close while another open connection is in the same
\* room: PLAYER_LEFT is broadcast to it.
C26_Witness ==
  \E c \in Conns :
    /\ ClosesInRoom(c)
    /\ \E d \in OthersInRoom(c) : IsOpen(St, d)
    /\ Sent(onClose(St, c), "PLAYER_LEFT") # {}

\* ---- faults --------------------------------------------------------------------
\* ws.on('message') when the handler it dispatches to throws at its first storage
\* call, before it has changed anything: what is left is the catch clause around
\* the handler. JOIN_GAME is caught inside handleJoinGame, after the dispatcher
\* has stored the game id in the connection; the catch clauses of BUZZER_HOLD and
\* BUZZER_RELEASE only log.
onMessageFault(s, c, data) ==
  LET userId == s.conns[c].userId
  IN IF data.type = "IDENTIFY"
     THEN IF data.userId = 0 THEN Error(s, c, "User ID required")
          ELSE Error(s, c, "Invalid message format")
     ELSE IF ~s.conns[c].userIdentified \/ userId = 0 THEN Error(s, c, "Please identify first")
     ELSE IF data.type = "JOIN_GAME" /\ data.gameId # 0
     THEN Error([s EXCEPT !.conns[c].gameId = data.gameId], c, "Internal server error")
     ELSE IF data.type = "PLAYER_READY" /\ data.gameId # 0
     THEN Error(s, c, "Failed to update ready status")
     ELSE IF data.type = "BUZZER_HOLD" /\ data.gameId # 0
     THEN s
     ELSE IF data.type = "BUZZER_RELEASE" /\ data.gameId # 0 /\ data.holdTime \in Int
     THEN s
     ELSE Error(s, c, "Invalid or incomplete message")

\* C27: when the handler of a JOIN_GAME, PLAYER_READY, BUZZER_HOLD or BUZZER_RELEASE
\* fails with an unexpected fault, the connection that sent the message receives
\* an ERROR, and the connection stays open for later messages.
C27_FaultIsReportedToSender ==
  \A c \in IdentifiedConns, data \in Messages :
    LET r == onMessageFault(St, c, data)
    IN /\ \E i \in Sent(r, "ERROR") : r.out[i].to = {c}
       /\ \A d \in Conns : IsOpen(St, d) => IsOpen(r, d)

\* C28: the winner of a round did not deplete its time bank with its bid: a release
\* whose hold, in seconds, exceeds what is left in the participant's time bank is
\* not the winning bid of the round.
C28_OverdrawnBidNeverWins ==
  \A c \in IdentifiedConns, g \in GameIds, h \in HoldTimes \cup {2000 * StartBank} :
    LET p == getParticipant(St, g, conns[c].userId)
        r == onMessage(St, c, ReleaseMsg(g, h))
    IN (Resolved(r) /\ h > 1000 * p.timeBank) => r.games[g].roundWinnerId # p.id

\* C30: immediately after a round is resolved every participant of the game has
\* has-bid false and recorded duration 0, so that the first release of each
\* non-eliminated participant in the next round is accepted as a bid; participant
\* row ids and user ids are independent numberings.
C30_ResolutionResetsEveryBid ==
  \A c \in IdentifiedConns, g \in GameIds, h \in HoldTimes :
    LET r == onMessage(St, c, ReleaseMsg(g, h))
    IN Resolved(r) =>
         \A i \in ParticipantsOf(r, g) :
           ~r.parts[i].hasBidThisRound /\ r.parts[i].lastHoldTime = 0

\* C31: for every resolved round, the winnerId and winnerHoldTime of ROUND_END and
\* the game's last-round summary fields (roundWinnerId, maxHoldTimeLastRound) are
\* the user id of the participant who won the round, the one whose recorded hold
\* is strictly greatest, and that participant's recorded hold duration.
C31_RoundEndNamesWinningUser ==
  \A c \in IdentifiedConns, g \in GameIds, h \in HoldTimes :
    LET u == conns[c].userId
        r == onMessage(St, c, ReleaseMsg(g, h))
        hold(i) == IF parts[i].userId = u THEN h ELSE parts[i].lastHoldTime
    IN Resolved(r) =>
         \A w \in Active(St, g) :
           (\A i \in Active(St, g) \ {w} : hold(w) > hold(i)) =>
             /\ r.games[g].roundWinnerId = parts[w].userId
             /\ r.games[g].maxHoldTimeLastRound = hold(w)
             /\ \A k \in Sent(r, "ROUND_END") :
                  /\ r.out[k].msg.winnerId = parts[w].userId
                  /\ r.out[k].msg.winnerHoldTime = hold(w)

\* ---- the start specification: several countdowns of one game are alive ----------
MaxStartTimers == 2                \* countdown timers alive at once in this part

\* What the start specification explores of a result state.
WithinStartBounds(s) ==
  /\ \A g \in 1..Len(s.games) : Len(getParticipantsByGame(s, g)) <= MaxParticipants
  /\ \A i \in 1..Len(s.parts) : s.parts[i].timeBank <= MaxBank
  /\ Len(s.countdowns) <= MaxStartTimers
  /\ Len(s.resolutions) <= MaxResolutions

\* A participant sends PLAYER_READY; each one that finds every participant ready
\* starts a countdown of its own.
ReceiveReady ==
  \E c \in IdentifiedConns, g \in GameIds, b \in BOOLEAN :
    /\ getParticipant(St, g, conns[c].userId) # NoParticipant
    /\ LET r == onMessage(St, c, ReadyMsg(g, b))
       IN WithinStartBounds(r) /\ Becomes(r) /\ UNCHANGED frames

NextStart ==
  \/ CreateGame
  \/ HttpJoin
  \/ ReceiveJoin
  \/ ReceiveReady
  \/ CountdownTickAsync
  \/ Resume

SpecStart == Init /\ [][NextStart]_vars

\* The rounds numbered 1 created for game g in s.
FirstRounds(s, g) ==
  {i \in 1..Len(s.gameRounds) : s.gameRounds[i] = [gameId |-> g, roundNumber |-> 1]}

\* C32: a game is started at most once: round 1 of a game is created at most once
\* and GAME_START is broadcast at most once, also when several PLAYER_READY
\* messages each found every participant ready and each started a countdown. No
\* startGame that has passed the status check is left to create round 1 and
\* broadcast GAME_START once round 1 exists, and the startGame of a countdown that
\* runs undisturbed starts nothing in a game that has its round 1.
C32_GameStartedAtMostOnce ==
  /\ \A g \in GameIds : Cardinality(FirstRounds(St, g)) <= 1
  /\ \A i \in 1..Len(frames) :
       (frames[i].kind = "start" /\ frames[i].pc \in {"updateGameStatus", "createRound"})
         => FirstRounds(St, frames[i].gameId) = {}
  /\ \A i \in 1..Len(countdowns) :
       LET g == countdowns[i].gameId
           r == countdownTick(St, i)
       IN /\ Cardinality(Sent(r, "GAME_START")) <= 1
          /\ FirstRounds(St, g) # {} =>
               (Sent(r, "GAME_START") = {} /\ r.gameRounds = gameRounds
                  /\ r.games = games)

\* The ROUND_START of the next round of game g is still to be broadcast: the
\* timeout set by the last resolution has not fired.
RoundStartPending(g) == \E i \in 1..Len(roundTimers) : roundTimers[i].gameId = g

\* C33: no bid for the next round is accepted before its ROUND_START has been
\* broadcast: during the delay that follows ROUND_END, a BUZZER_RELEASE is not
\* recorded as a bid (no participant field changes) and resolves no round.
C33_NoBidBeforeRoundStart ==
  \A c \in IdentifiedConns, g \in GameIds, h \in HoldTimes :
    LET r == onMessage(St, c, ReleaseMsg(g, h))
    IN RoundStartPending(g) => (r.parts = parts /\ ~Resolved(r))

\* The tokens won by the participants of game g among the first n participant rows.
RECURSIVE TokensWon(_, _)
TokensWon(g, n) ==
  IF n = 0 THEN 0
  ELSE TokensWon(g, n - 1) + (IF parts[n].gameId = g THEN parts[n].tokensWon ELSE 0)

\* C34: in every reachable state the sum of tokensWon over the participants of a
\* game is at most the number of rounds resolved in that game, and that number is
\* at most the game's totalRounds.
C34_TokensBoundedByRounds ==
  \A g \in 1..Len(games) :
    /\ TokensWon(g, Len(parts)) <= ResolutionCount(g)
    /\ ResolutionCount(g) <= games[g].totalRounds

\* Connections old and new are open and identified as the same user, and new is
\* the one registered for the user and the one in the room of the game both have
\* joined: new identified and joined after old did.
NewerReplaces(old, new) ==
  /\ old # new
  /\ conns[old].state = "open" /\ conns[new].state = "open"
  /\ conns[old].userId # 0
  /\ conns[old].userId = conns[new].userId
  /\ conns[old].gameId # 0
  /\ conns[old].gameId = conns[new].gameId
  /\ conns[new].userId \in DOMAIN userSocketMap
  /\ userSocketMap[conns[new].userId] = new
  /\ conns[new].gameId \in DOMAIN gameClients
  /\ conns[new].userId \in DOMAIN gameClients[conns[new].gameId]
  /\ gameClients[conns[new].gameId][conns[new].userId] = new

\* C35: when a user has a newer connection that identified as the same user and
\* joined the same game, the close of the user's older connection leaves the
\* newer connection registered in the user-to-connection map and in the room of
\* the game, and broadcasts no PLAYER_LEFT.
C35_OldCloseKeepsNewerConnection ==
  \A old, new \in Conns :
    NewerReplaces(old, new) =>
      LET u == conns[new].userId
          g == conns[new].gameId
          r == onClose(St, old)
      IN /\ u \in DOMAIN r.userSocketMap /\ r.userSocketMap[u] = new
         /\ g \in DOMAIN r.gameClients
         /\ u \in DOMAIN r.gameClients[g] /\ r.gameClients[g][u] = new
         /\ r.gameClients = gameClients
         /\ Sent(r, "PLAYER_LEFT") = {}

\* A user's older connection is about to close while the user's newer connection
\* is the registered one and is in the room of the game both joined.
C35_Witness == \E old, new \in Conns : NewerReplaces(old, new)

\* The user ids a payload may carry: each user and an id of no user.
PayloadUsers == {UnknownUser} \cup Humans

\* Row i is the same in s and t but for the fields named.
SameBut(s, t, i, fields) ==
  \A f \in DOMAIN s.parts[i] : f \notin fields => t.parts[i][f] = s.parts[i][f]

\* C36: a message on a connection identified as user U acts only as U, whatever
\* userId its payload carries: the result of PLAYER_READY and of BUZZER_RELEASE
\* does not depend on the payload userId; PLAYER_READY changes nothing of the
\* participants but the ready flag of U's participant; BUZZER_RELEASE changes no
\* other participant's ready flag or time bank, and the recording of the release
\* (a release that does not go on to resolve the round) changes nothing of the
\* participants but the bid fields and the time bank of U's participant.
C36_MessageActsAsIdentifiedUser ==
  \A c \in IdentifiedConns, g \in GameIds :
    LET u == conns[c].userId
        mine(i) == parts[i].gameId = g /\ parts[i].userId = u
    IN /\ \A b \in BOOLEAN :
            LET r == onMessage(St, c, ReadyMsg(g, b))
            IN /\ \A v \in PayloadUsers :
                    onMessage(St, c, [ReadyMsg(g, b) EXCEPT !.userId = v]) = r
               /\ Len(r.parts) = Len(parts)
               /\ \A i \in 1..Len(parts) :
                    SameBut(St, r, i, IF mine(i) THEN {"isReady"} ELSE {})
       /\ \A h \in HoldTimes :
            LET r == onMessage(St, c, ReleaseMsg(g, h))
            IN /\ \A v \in PayloadUsers :
                    onMessage(St, c, [ReleaseMsg(g, h) EXCEPT !.userId = v]) = r
               /\ Len(r.parts) = Len(parts)
               /\ \A i \in 1..Len(parts) :
                    /\ r.parts[i].isReady = parts[i].isReady
                    /\ ~mine(i) => r.parts[i].timeBank = parts[i].timeBank
                    /\ ~Resolved(r) =>
                         SameBut(St, r, i,
                                 IF mine(i) THEN {"timeBank", "hasBidThisRound", "lastHoldTime"}
                                 ELSE {})

\* In a game in progress two participants have not bid: a release on the connection
\* of one of them could name the other in its payload.
C36_Witness ==
  \E c \in IdentifiedConns, g \in 1..Len(games), v \in Humans :
    /\ v # conns[c].userId
    /\ games[g].status = "in_progress"
    /\ Accepted(g, conns[c].userId)
    /\ Accepted(g, v)
    /\ onMessage(St, c, [ReleaseMsg(g, 1000) EXCEPT !.userId = v]).parts # parts

\* C37: every GAME_STATE snapshot reports, for each player, exactly the time bank
\* stored for that participant, also when the stored time bank is 0.
C37_SnapshotReportsStoredTimeBank ==
  \A g \in 1..Len(games), c \in Conns :
    LET r == sendGameState(St, g, c)
        ps == getParticipantsByGame(St, g)
    IN \A k \in Sent(r, "GAME_STATE") :
         /\ Len(r.out[k].msg.players) = Len(ps)
         /\ \A i \in 1..Len(ps) :
              /\ r.out[k].msg.players[i].id = ps[i].userId
              /\ r.out[k].msg.players[i].timeBank = ps[i].timeBank

\* The last GAME_STATE of game g that the handler that produced r sent to
\* connection d, 0 when it sent none.
LastGameState(r, g, d) ==
  LET sent == {k \in Sent(r, "GAME_STATE") : r.out[k].msg.gameId = g /\ d \in r.out[k].to}
  IN IF sent = {} THEN 0 ELSE Latest(sent)

\* C38: when a release completes a game through endGame, every open connection in
\* the room of the game is sent a GAME_STATE whose status is completed and whose
\* eliminated flags are the stored ones: the last GAME_STATE a connection has got
\* when the handler ends does not report in_progress for the completed game.
C38_CompletionIsResynced ==
  \A c \in IdentifiedConns, g \in DOMAIN gameClients, h \in HoldTimes :
    LET r == onMessage(St, c, ReleaseMsg(g, h))
        ps == getParticipantsByGame(r, g)
    IN (getGame(St, g).status = "in_progress" /\ getGame(r, g).status = "completed") =>
         \A d \in LiveInRoom(g) :
           LET k == LastGameState(r, g, d)
           IN /\ k # 0
              /\ r.out[k].msg.status = "completed"
              /\ \A i \in 1..Len(ps) :
                   r.out[k].msg.players[i].isEliminated = ps[i].isEliminated

\* C39: when a release completes a game of at least two participants through
\* endGame, at least one participant is left non-eliminated, and the participant
\* ranked first in GAME_END is not eliminated.
C39_EndGameLeavesAWinner ==
  \A c \in IdentifiedConns, g \in GameIds, h \in HoldTimes :
    LET r == onMessage(St, c, ReleaseMsg(g, h))
        ps == getParticipantsByGame(r, g)
    IN (getGame(St, g) # NoGame /\ getGame(St, g).status = "in_progress"
          /\ getGame(r, g).status = "completed" /\ Len(ps) >= 2) =>
         /\ \E i \in 1..Len(ps) : ~ps[i].isEliminated
         /\ ~getParticipant(r, g, Rankings(ps)[1].userId).isEliminated

\* ---- the restart specification: the start specification with the rounds played ---
NextRestart ==
  \/ CreateGame
  \/ HttpJoin
  \/ ReceiveReady
  \/ ReceiveRelease
  \/ CountdownTickAsync
  \/ Resume

SpecRestart == Init /\ [][NextRestart]_vars

\* C40: no participant is marked eliminated while its game is waiting or
\* in_progress: an eliminated participant belongs to a completed game, so that the
\* participants expected to bid never get fewer during the round loop.
C40_EliminatedOnlyInCompletedGame ==
  \A i \in 1..Len(parts) :
    parts[i].isEliminated => getGame(St, parts[i].gameId).status = "completed"

\* Game g is in progress and every one of its participants is eliminated.
AllEliminated(g) ==
  /\ games[g].status = "in_progress"
  /\ ParticipantsOf(St, g) # {}
  /\ \A i \in ParticipantsOf(St, g) : parts[i].isEliminated

\* C29: if every participant of a game in progress is eliminated before bidding,
\* the round still resolves: a release of a participant resolves it with no
\* winner, no token awarded and currentRound advanced by one.
C29_AllEliminatedRoundResolves ==
  \A g \in 1..Len(games) :
    AllEliminated(g) =>
      \E c \in IdentifiedConns, h \in HoldTimes :
        LET r == onMessage(St, c, ReleaseMsg(g, h))
        IN /\ getParticipant(St, g, conns[c].userId) # NoParticipant
           /\ Resolved(r)
           /\ r.games[g].roundWinnerId = 0
           /\ \A i \in 1..Len(parts) : r.parts[i].tokensWon = parts[i].tokensWon
           /\ r.games[g].currentRound = games[g].currentRound + 1

====
